---- MODULE Spec2Model ----
(***************************************************************************)
(* A model of informed's FormController (src/src/FormController.js): the   *)
(* field registry (a JS Map), the three path-addressed trees, the events   *)
(* it emits and the synchronous, re-entrant calls it makes into the        *)
(* fieldApi of the registered fields.                                      *)
(*                                                                         *)
(* The controller runs on one thread.  A call into a fieldApi method is a  *)
(* callback frame on `stack`; while it is on top, the field may call back  *)
(* into the updater.  `log` records, for the top-level operation that is   *)
(* running (or ran last), every invocation, emitted event and fieldApi     *)
(* call, each with the call level of the controller operation that made    *)
(* it.                                                                     *)
(*                                                                         *)
(* ObjectMap (imported by FormController.js) is modelled from its contract:*)
(* get / set / delete / empty on a nested object addressed by a path.      *)
(* The listeners of the emitted events only observe.  No fieldApi method   *)
(* catches: a TypeError thrown inside the controller unwinds every frame   *)
(* up to the top-level caller.                                             *)
(***************************************************************************)
EXTENDS Integers, Sequences, FiniteSets, TLC

VARIABLES form, fields, values, touched, errors, stored, stack, log, nextId

vars == <<form, fields, values, touched, errors, stored, stack, log, nextId>>

(* ------------------------------ bounds -------------------------------- *)

\* Frames on the call stack (operation, callback, nested operation, ...).
MaxDepth == 4
\* Updater calls one fieldApi callback makes before it returns.
MaxCalls == 1
\* Bindings created by register in one behaviour.
MaxBindings == 3

(* --------------------------- JS values -------------------------------- *)

Undefined == "undefined"

\* A JS value: a primitive, or an object with its own enumerable keys.
NoKids == [k \in {} |-> Undefined]
Prim(v) == [obj |-> FALSE, val |-> v, kids |-> NoKids]
Obj(k) == [obj |-> TRUE, val |-> Undefined, kids |-> k]
Absent == Prim(Undefined)

Paths == {"a", "a.b", "a.c"}

(* ------------------------- the form under test ------------------------ *)

\* The controller serves one form: a fixed set of field components, each
\* with its `field` path and `notify` prop (asField passes both on), and
\* the values its fields and its owner hand to the controller.  `form` is
\* chosen once, in Init, and never changes.
\*   paths   the paths the fields and the owner use
\*   notify  each field's notify prop (<<>>: none, or an empty list; the
\*           forEach over either calls nothing)
\*   alt     the other notify props a field is mounted with when it is
\*           mounted again
\*   prop    the `field` property of each field's binding object
\*   vals, tvals, evals   the values written to the three trees
\*   top     the operations the owner and the field events invoke
\*   cb      the updater operations a fieldApi method invokes on its own path
\*   cbOther the updater operations it invokes on the other paths
NoNotify == [p \in Paths |-> <<>>]
NoAlt == [p \in Paths |-> {}]
OwnProp == [p \in Paths |-> p]

AllOps == {"setValue", "setValueQuiet", "setTouched", "setError", "register",
           "deregister", "reset", "submitForm", "formApi"}

\* The store: overlapping paths, every tree written, fields that only
\* listen.
StoreForm ==
  [name |-> "store", paths |-> {"a", "a.b"}, notify |-> NoNotify,
   alt |-> NoAlt, prop |-> OwnProp,
   vals |-> {Undefined, "v"}, tvals |-> {Undefined, "t"}, evals |-> {Undefined, "e"},
   top |-> AllOps, cb |-> {}, cbOther |-> {}]

\* Two sibling fields, the first notifying the second, whose fieldApi
\* methods report back through the updater.
PairForm ==
  [name |-> "pair", paths |-> {"a.b", "a.c"},
   notify |-> [NoNotify EXCEPT !["a.b"] = <<"a.c">>], alt |-> NoAlt, prop |-> OwnProp,
   vals |-> {"v"}, tvals |-> {Undefined}, evals |-> {Undefined, "e"},
   top |-> {"setValue", "register", "deregister", "reset", "submitForm", "formApi"},
   cb |-> {"setValueQuiet", "setError"}, cbOther |-> {"deregister"}]

\* The same two fields, whose fieldApi methods answer with a notifying
\* setValue of their own or with an error.
NestForm ==
  [name |-> "nest", paths |-> {"a.b", "a.c"},
   notify |-> [NoNotify EXCEPT !["a.b"] = <<"a.c">>], alt |-> NoAlt, prop |-> OwnProp,
   vals |-> {"v"}, tvals |-> {Undefined}, evals |-> {"e"},
   top |-> {"setValue", "register", "submitForm", "formApi"},
   cb |-> {"setValue", "setError"}, cbOther |-> {}]

\* One field mounted again and again, with another initial value and with
\* a notify prop that has changed.
RebindForm ==
  [name |-> "rebind", paths |-> {"a.b", "a.c"}, notify |-> NoNotify,
   alt |-> [NoAlt EXCEPT !["a.b"] = {<<"a.c">>}], prop |-> OwnProp,
   vals |-> {"v", "w"}, tvals |-> {Undefined}, evals |-> {Undefined},
   top |-> {"setValue", "register", "reset", "submitForm"},
   cb |-> {}, cbOther |-> {}]

\* A binding registered under "a.c" whose `field` property names "a.b".
AliasForm ==
  [name |-> "alias", paths |-> {"a.b", "a.c"},
   notify |-> [NoNotify EXCEPT !["a.b"] = <<"a.c">>], alt |-> NoAlt,
   prop |-> [OwnProp EXCEPT !["a.c"] = "a.b"],
   vals |-> {"v", "w"}, tvals |-> {Undefined}, evals |-> {Undefined},
   top |-> {"setValue", "register"}, cb |-> {}, cbOther |-> {}]

\* Two fields whose validate writes the other field's value or its own
\* error, or unmounts the other field; the first notifies itself and then
\* the second.
RelayForm ==
  [name |-> "relay", paths |-> {"a.b", "a.c"},
   notify |-> [NoNotify EXCEPT !["a.b"] = <<"a.b", "a.c">>], alt |-> NoAlt,
   prop |-> OwnProp,
   vals |-> {"v", "w"}, tvals |-> {Undefined}, evals |-> {"e"},
   top |-> {"setValue", "register", "submitForm"},
   cb |-> {"setError"}, cbOther |-> {"setValueQuiet", "deregister"}]

\* Two fields on overlapping paths; validate of either writes the value
\* at the other's path.
OverlapForm ==
  [name |-> "overlap", paths |-> {"a", "a.b"}, notify |-> NoNotify,
   alt |-> NoAlt, prop |-> OwnProp,
   vals |-> {"v", "w"}, tvals |-> {Undefined}, evals |-> {Undefined},
   top |-> {"setValueQuiet", "register", "submitForm"},
   cb |-> {}, cbOther |-> {"setValueQuiet"}]

\* Two fields notifying each other, the first listing the second twice;
\* their fieldApi methods report back without notifying.
ChainForm ==
  [name |-> "chain", paths |-> {"a.b", "a.c"},
   notify |-> [NoNotify EXCEPT !["a.b"] = <<"a.c", "a.c">>, !["a.c"] = <<"a.b">>],
   alt |-> NoAlt, prop |-> OwnProp,
   vals |-> {"v"}, tvals |-> {"t"}, evals |-> {"e"},
   top |-> {"setValue", "register"},
   cb |-> {"setValueQuiet", "setTouched", "setError"}, cbOther |-> {}]

\* Two fields notifying each other, whose validate answers with a
\* notifying setValue.
CycleForm ==
  [name |-> "cycle", paths |-> {"a.b", "a.c"},
   notify |-> [NoNotify EXCEPT !["a.b"] = <<"a.c">>, !["a.c"] = <<"a.b">>],
   alt |-> NoAlt, prop |-> OwnProp,
   vals |-> {"v"}, tvals |-> {Undefined}, evals |-> {Undefined},
   top |-> {"setValue", "register"}, cb |-> {"setValue"}, cbOther |-> {}]

Forms == {StoreForm, PairForm, NestForm, RebindForm, AliasForm, RelayForm,
          OverlapForm, ChainForm, CycleForm}

(* ------------------------- ObjectMap (PathStore) ---------------------- *)

\* The path string split on "." into its keys.
Segments(p) ==
  CASE p = "a" -> <<"a">>
    [] p = "a.b" -> <<"a", "b">>
    [] p = "a.c" -> <<"a", "c">>
    [] OTHER -> <<p>>

RECURSIVE GetAt(_, _)
GetAt(node, segs) ==
  IF segs = <<>> THEN node
  ELSE IF node.obj /\ Head(segs) \in DOMAIN node.kids
       THEN GetAt(node.kids[Head(segs)], Tail(segs))
       ELSE Absent

ObjectMapGet(root, p) == GetAt(root, Segments(p))

RECURSIVE SetAt(_, _, _)
SetAt(node, segs, v) ==
  IF segs = <<>> THEN v
  ELSE LET k == Head(segs)
           base == IF node.obj THEN node.kids ELSE NoKids
           child == IF k \in DOMAIN base THEN base[k] ELSE Absent
       IN Obj([x \in (DOMAIN base) \cup {k} |->
                 IF x = k THEN SetAt(child, Tail(segs), v) ELSE base[x]])

ObjectMapSet(root, p, v) == SetAt(root, Segments(p), v)

RECURSIVE DeleteAt(_, _)
DeleteAt(node, segs) ==
  IF ~node.obj \/ Head(segs) \notin DOMAIN node.kids THEN node
  ELSE IF Len(segs) = 1
       THEN Obj([x \in (DOMAIN node.kids) \ {Head(segs)} |-> node.kids[x]])
       ELSE Obj([x \in DOMAIN node.kids |->
                   IF x = Head(segs) THEN DeleteAt(node.kids[x], Tail(segs))
                   ELSE node.kids[x]])

ObjectMapDelete(root, p) == DeleteAt(root, Segments(p))

RECURSIVE ObjectMapEmpty(_)
ObjectMapEmpty(node) ==
  IF node.obj THEN \A k \in DOMAIN node.kids : ObjectMapEmpty(node.kids[k])
  ELSE node.val = Undefined

\* Whether the tree has a key at the path (what getState() lists).
RECURSIVE HasAt(_, _)
HasAt(node, segs) ==
  IF segs = <<>> THEN TRUE
  ELSE node.obj /\ Head(segs) \in DOMAIN node.kids
       /\ HasAt(node.kids[Head(segs)], Tail(segs))

Lists(root, p) == HasAt(root, Segments(p))

(* ------------------------------ registry ------------------------------ *)

\* this.fields is a JS Map: its entries in insertion order.  An entry is
\* the key with the binding object registered under it: the binding's
\* identity `id`, its `field` property and its notify list.
Entry(p, id, fld, nl) == [key |-> p, id |-> id, field |-> fld, notify |-> nl]

Has(p) == \E i \in 1..Len(fields) : fields[i].key = p

IndexOf(p) == CHOOSE i \in 1..Len(fields) : fields[i].key = p

\* The keys of the Map, in insertion order.
Keys == [i \in 1..Len(fields) |-> fields[i].key]

\* Map.prototype.get
FieldsGet(p) == fields[IndexOf(p)]

FieldsSetAppend(p, e) == Append(fields, e)

\* Map.prototype.set: a present key keeps its place, a new one goes last.
FieldsSet(p, e) ==
  IF Has(p) THEN [fields EXCEPT ![IndexOf(p)] = e] ELSE Append(fields, e)

FieldsKept(p) == fields

\* A delete that empties the Map.
FieldsCleared(p) == <<>>

\* Map.prototype.delete
FieldsDelete(p) ==
  IF Has(p)
  THEN SubSeq(fields, 1, IndexOf(p) - 1)
         \o SubSeq(fields, IndexOf(p) + 1, Len(fields))
  ELSE fields

(* ------------------------------ call stack ---------------------------- *)

\* kind: "notify" | "reset" | "submit" | "api" (an operation of the
\* controller that is inside a fan-out) or "cb" (a fieldApi method of
\* binding `id`, registered under `key`, is running).  idx is the place of
\* a forEach in its list (notify) or in the Map (reset, submit); calls
\* counts the updater calls a callback has made.  For reset and submit,
\* list keeps the keys that were registered when the operation was called
\* (history, read by the properties only).
Frame(kind, key, id, list) ==
  [kind |-> kind, key |-> key, id |-> id, list |-> list, idx |-> 1, calls |-> 0]

Top == stack[Len(stack)]

\* Nothing is running and the last operation's caller has taken its result.
Idle == stack = <<>> /\ log = <<>>

\* Operation `op` on path p can be invoked now: by the form's owner or a
\* field event when nothing is running, or by the fieldApi method that is
\* running.
May(op, p) ==
  IF stack = <<>> THEN log = <<>> /\ op \in form.top
  ELSE /\ Top.kind = "cb"
       /\ Top.calls < MaxCalls
       /\ op \in (IF p = Top.key THEN form.cb ELSE form.cbOther)

\* Room on the stack for an operation's frame and the callback it calls.
CanNest == Len(stack) + 2 <= MaxDepth

\* The call level of the operation being invoked.
Lvl == Len(stack) + 1

\* The caller's frame after it made one more call.
Called == IF stack = <<>> THEN stack
          ELSE [stack EXCEPT ![Len(stack)].calls = @ + 1]

\* A Map entry removed while forEach frames walk the Map: the entries after
\* it move up one place, and a forEach that is at or past it moves with
\* them (it neither skips nor repeats a live entry).
Shifted(stk, pos) ==
  [i \in 1..Len(stk) |->
     IF stk[i].kind \in {"reset", "submit"} /\ pos <= stk[i].idx
     THEN [stk[i] EXCEPT !.idx = @ - 1] ELSE stk[i]]

(* --------------------------------- log -------------------------------- *)

\* t: "invoke" (an operation of the controller is called), "emit" (an
\* event), "call" (a fieldApi method is called), "prevent"
\* (e.preventDefault), "miss" (fields.get found no entry for a notify
\* target), "throw" (a TypeError leaves the operation).  The invocation
\* of register carries the identity of the binding it stores, that of
\* deregister the identity of the binding it removes (0: none).
Rec(t, name, lvl, key, id, arg, arg2, arg3) ==
  [t |-> t, name |-> name, lvl |-> lvl, key |-> key, id |-> id,
   arg |-> arg, arg2 |-> arg2, arg3 |-> arg3]

Invoke(name, lvl, key, arg, arg2, arg3) ==
  Rec("invoke", name, lvl, key, 0, arg, arg2, arg3)
EmitChange(name, lvl) == Rec("emit", "change", lvl, "", 0, Absent, Absent, Absent)
Emit(name, lvl) == Rec("emit", name, lvl, "", 0, Absent, Absent, Absent)
Call(name, lvl, key, id, arg) == Rec("call", name, lvl, key, id, arg, Absent, Absent)
Throw(lvl) == Rec("throw", "TypeError", lvl, "", 0, Absent, Absent, Absent)
Miss(lvl, key) == Rec("miss", "get", lvl, key, 0, Absent, Absent, Absent)
Prevent(lvl) == Rec("prevent", "preventDefault", lvl, "", 0, Absent, Absent, Absent)

(* --------------------------- derived state ---------------------------- *)

\* A read that does not look at the tree.
getValueBlind(p) == Absent

getValue(p) == ObjectMapGet(values, p)
getTouched(p) == ObjectMapGet(touched, p)
\* A getError that reads the touched tree.
getErrorOfTouched(p) == ObjectMapGet(touched, p)

getError(p) == ObjectMapGet(errors, p)

valid == ObjectMapEmpty(errors)
invalid == ~ObjectMapEmpty(errors)
pristine == ObjectMapEmpty(touched) /\ ObjectMapEmpty(values)
dirty == ~pristine

\* this.state as an object: the trees and the three booleans stored at
\* construction.
StateObject ==
  [values |-> values, touched |-> touched, errors |-> errors,
   pristine |-> stored.pristine, dirty |-> stored.dirty, invalid |-> stored.invalid]

\* The spread of this.state written after the computed keys: the stored
\* booleans win.
getFormStateStale ==
  StateObject @@ [pristine |-> pristine, dirty |-> dirty, invalid |-> invalid]

\* { ...this.state, pristine: ..., dirty: ..., invalid: ... }: the later
\* keys replace the spread ones.
getFormState ==
  [pristine |-> pristine, dirty |-> dirty, invalid |-> invalid] @@ StateObject

(* -------------------------------- Init -------------------------------- *)

Init ==
  /\ form \in Forms
  /\ fields = <<>>
  /\ values = Obj(NoKids)
  /\ touched = Obj(NoKids)
  /\ errors = Obj(NoKids)
  /\ stored = [pristine |-> TRUE, dirty |-> FALSE, invalid |-> FALSE]
  /\ stack = <<>>
  /\ log = <<>>
  /\ nextId = 1

(* ------------------------- updater operations ------------------------- *)

\* notify(field), called at the end of setValue: reading .notify of a
\* missing registry entry is a TypeError, which unwinds every frame.
NotifyCall(p, l) ==
  IF Has(p)
  THEN /\ stack' = Append(Called, Frame("notify", p, FieldsGet(p).id, FieldsGet(p).notify))
       /\ log' = l
  ELSE /\ stack' = <<>>
       /\ log' = Append(l, Throw(Lvl))

setValue(p, v, n) ==
  /\ May(IF n THEN "setValue" ELSE "setValueQuiet", p)
  /\ n => CanNest
  /\ values' = ObjectMapSet(values, p, Prim(v))
  /\ LET l == log \o <<Invoke("setValue", Lvl, p, Prim(v), Prim(IF n THEN "true" ELSE "false"), Absent),
                           Emit("change", Lvl), Emit("value", Lvl)>>
     IN IF n THEN NotifyCall(p, l)
        ELSE stack' = Called /\ log' = l
  /\ UNCHANGED <<form, fields, touched, errors, stored, nextId>>

setTouched(p, v) ==
  /\ May("setTouched", p)
  /\ touched' = ObjectMapSet(touched, p, Prim(v))
  /\ log' = log \o <<Invoke("setTouched", Lvl, p, Prim(v), Absent, Absent),
                         Emit("change", Lvl)>>
  /\ stack' = Called
  /\ UNCHANGED <<form, fields, values, errors, stored, nextId>>

setError(p, v) ==
  /\ May("setError", p)
  /\ errors' = ObjectMapSet(errors, p, Prim(v))
  /\ log' = log \o <<Invoke("setError", Lvl, p, Prim(v), Absent, Absent),
                         Emit("change", Lvl)>>
  /\ stack' = Called
  /\ UNCHANGED <<form, fields, values, touched, stored, nextId>>

RegisterNotifiesBug == TRUE

\* The notify argument of register's seeding setValue.
RegisterNotifies == FALSE

register(p, v0, t0, e0, fld, nl) ==
  /\ May("register", p)
  /\ nextId <= MaxBindings
  /\ RegisterNotifies => CanNest
  /\ fields' = FieldsSet(p, Entry(p, nextId, fld, nl))
  /\ nextId' = nextId + 1
  /\ values' = ObjectMapSet(values, p, Prim(v0))
  /\ touched' = ObjectMapSet(touched, p, Prim(t0))
  /\ errors' = ObjectMapSet(errors, p, Prim(e0))
  /\ LET l == log \o <<Rec("invoke", "register", Lvl, p, nextId, Prim(v0), Prim(t0), Prim(e0)),
                           Emit("change", Lvl), Emit("value", Lvl),
                           Emit("change", Lvl), Emit("change", Lvl)>>
     IN IF RegisterNotifies
        THEN /\ stack' = Append(Called, Frame("notify", p, nextId, nl))
             /\ log' = l
        ELSE stack' = Called /\ log' = l
  /\ UNCHANGED <<form, stored>>

TouchedKept(p) == touched

\* ObjectMap.delete(this.state.touched, field)
TouchedPurged(p) == ObjectMapDelete(touched, p)

deregister(p) ==
  /\ May("deregister", p)
  /\ fields' = FieldsDelete(p)
  /\ values' = ObjectMapDelete(values, p)
  /\ errors' = ObjectMapDelete(errors, p)
  /\ touched' = TouchedPurged(p)
  /\ log' = log \o <<Rec("invoke", "deregister", Lvl, p,
                             IF Has(p) THEN FieldsGet(p).id ELSE 0,
                             Absent, Absent, Absent),
                         Emit("change", Lvl)>>
  /\ stack' = IF Has(p) THEN Shifted(Called, IndexOf(p)) ELSE Called
  /\ UNCHANGED <<form, stored, nextId>>

(* ------------------------ notification fan-out ------------------------ *)

\* The path whose value notify passes to validate: the `field` property of
\* the target's binding.
NotifyValuePath(e) == e.field

NotifyTargetNever(q) == FALSE

\* A lookup that passes over a target the list has named before.
NotifyTargetOnce(q) == Has(q) /\ ~\E n \in 1..(Top.idx - 1) : Top.list[n] = q

\* if( toNotify ): the target has a registry entry.
NotifyTargetPresent(q) == Has(q)

\* One turn of notifier.notify.forEach: a registered target's validate is
\* called with the value read for it; a missing target is passed over.
NotifyStep ==
  /\ stack # <<>>
  /\ Top.kind = "notify"
  /\ Top.idx <= Len(Top.list)
  /\ LET q == Top.list[Top.idx]
     IN IF NotifyTargetPresent(q)
        THEN LET e == FieldsGet(q)
             IN /\ log' = Append(log, Call("validate", Len(stack), q, e.id,
                                           getValue(NotifyValuePath(e))))
                /\ stack' = Append(stack, Frame("cb", q, e.id, <<"validate">>))
        ELSE /\ log' = Append(log, Miss(Len(stack), q))
             /\ stack' = [stack EXCEPT ![Len(stack)].idx = @ + 1]
  /\ UNCHANGED <<form, fields, values, touched, errors, stored, nextId>>

\* forEach is over: notify, and with it setValue, returns.
NotifyReturn ==
  /\ stack # <<>>
  /\ Top.kind = "notify"
  /\ Top.idx > Len(Top.list)
  /\ stack' = SubSeq(stack, 1, Len(stack) - 1)
  /\ UNCHANGED <<form, fields, values, touched, errors, stored, log, nextId>>

(* ------------------------------- reset -------------------------------- *)

reset ==
  /\ Idle
  /\ "reset" \in form.top
  /\ stack' = <<Frame("reset", "", 0, Keys)>>
  /\ log' = <<Invoke("reset", 1, "", Absent, Absent, Absent)>>
  /\ UNCHANGED <<form, fields, values, touched, errors, stored, nextId>>

\* One turn of this.fields.forEach in reset.
ResetStep ==
  /\ stack # <<>>
  /\ Top.kind = "reset"
  /\ Top.idx <= Len(fields)
  /\ LET e == fields[Top.idx]
     IN /\ log' = Append(log, Call("reset", Len(stack), e.key, e.id, Absent))
        /\ stack' = Append(stack, Frame("cb", e.key, e.id, <<"reset">>))
  /\ UNCHANGED <<form, fields, values, touched, errors, stored, nextId>>

ResetTreeCleared(tree) == Obj(NoKids)

\* The trees reset leaves behind: it writes none of them itself.
ResetTree(tree) == tree

ResetReturn ==
  /\ stack # <<>>
  /\ Top.kind = "reset"
  /\ Top.idx > Len(fields)
  /\ values' = ResetTree(values)
  /\ touched' = ResetTree(touched)
  /\ errors' = ResetTree(errors)
  /\ log' = Append(log, Emit("change", Len(stack)))
  /\ stack' = SubSeq(stack, 1, Len(stack) - 1)
  /\ UNCHANGED <<form, fields, stored, nextId>>

(* ----------------------------- submitForm ----------------------------- *)

submitForm ==
  /\ Idle
  /\ "submitForm" \in form.top
  /\ stack' = <<Frame("submit", "", 0, Keys)>>
  /\ log' = <<Invoke("submitForm", 1, "", Absent, Absent, Absent), Prevent(1)>>
  /\ UNCHANGED <<form, fields, values, touched, errors, stored, nextId>>

\* One turn of this.fields.forEach in submitForm.
SubmitStep ==
  /\ stack # <<>>
  /\ Top.kind = "submit"
  /\ Top.idx <= Len(fields)
  /\ LET e == fields[Top.idx]
     IN /\ log' = Append(log, Call("validate", Len(stack), e.key, e.id, getValue(e.key)))
        /\ stack' = Append(stack, Frame("cb", e.key, e.id, <<"validate">>))
  /\ UNCHANGED <<form, fields, values, touched, errors, stored, nextId>>

SubmitGateOpen == TRUE

\* The check that gates the submit event.
SubmitGate == valid

SubmitReturn ==
  /\ stack # <<>>
  /\ Top.kind = "submit"
  /\ Top.idx > Len(fields)
  /\ log' = log \o <<Emit("change", Len(stack))>>
                \o (IF SubmitGate THEN <<Emit("submit", Len(stack))>> ELSE <<>>)
  /\ stack' = SubSeq(stack, 1, Len(stack) - 1)
  /\ UNCHANGED <<form, fields, values, touched, errors, stored, nextId>>

(* ------------------------- Form-API setters --------------------------- *)

\* getFormApi().setValue / setTouched / setError (m names which): the
\* same-named method of the field's fieldApi is called; a missing registry
\* entry is a TypeError.
FormApiWrites(m, p, v) ==
  IF m = "setValue" THEN ObjectMapSet(values, p, Prim(v)) ELSE values

\* The values tree a Form-API setter leaves behind: it writes nothing.
FormApiValues(m, p, v) == values

formApiSet(m, p, v) ==
  /\ Idle
  /\ "formApi" \in form.top
  /\ IF Has(p)
     THEN /\ log' = <<Invoke("formApi." \o m, 1, p, Prim(v), Absent, Absent),
                      Call(m, 1, p, FieldsGet(p).id, Prim(v))>>
          /\ stack' = <<Frame("api", p, FieldsGet(p).id, <<m>>),
                        Frame("cb", p, FieldsGet(p).id, <<m>>)>>
     ELSE /\ log' = <<Invoke("formApi." \o m, 1, p, Prim(v), Absent, Absent), Throw(1)>>
          /\ stack' = <<>>
  /\ values' = FormApiValues(m, p, v)
  /\ UNCHANGED <<form, fields, touched, errors, stored, nextId>>

\* The fieldApi method has returned, and the Form-API setter returns.
formApiReturn ==
  /\ stack # <<>>
  /\ Top.kind = "api"
  /\ stack' = SubSeq(stack, 1, Len(stack) - 1)
  /\ UNCHANGED <<form, fields, values, touched, errors, stored, log, nextId>>

(* ----------------------------- callbacks ------------------------------ *)

\* A return after which the caller's forEach stays on the same element.
CallbackReturnStay ==
  /\ stack # <<>>
  /\ Top.kind = "cb"
  /\ stack' = SubSeq(stack, 1, Len(stack) - 1)
  /\ UNCHANGED <<form, fields, values, touched, errors, stored, log, nextId>>

\* A return after which the caller's forEach passes over one element.
CallbackReturnSkip ==
  /\ stack # <<>>
  /\ Top.kind = "cb"
  /\ stack' = [SubSeq(stack, 1, Len(stack) - 1) EXCEPT ![Len(stack) - 1].idx = @ + 2]
  /\ UNCHANGED <<form, fields, values, touched, errors, stored, log, nextId>>

\* The running fieldApi method returns to the operation that called it,
\* whose forEach goes on to its next element.
CallbackReturn ==
  /\ stack # <<>>
  /\ Top.kind = "cb"
  /\ stack' = [SubSeq(stack, 1, Len(stack) - 1) EXCEPT ![Len(stack) - 1].idx = @ + 1]
  /\ UNCHANGED <<form, fields, values, touched, errors, stored, log, nextId>>

(* ------------------------------ the caller ---------------------------- *)

\* The top-level operation has returned and its caller has seen what it
\* did: the next one starts a new log.
Turn ==
  /\ stack = <<>>
  /\ log # <<>>
  /\ log' = <<>>
  /\ UNCHANGED <<form, fields, values, touched, errors, stored, stack, nextId>>

(* -------------------------------- Next -------------------------------- *)

Next ==
  \/ \E p \in form.paths, v \in form.vals, n \in BOOLEAN : setValue(p, v, n)
  \/ \E p \in form.paths, v \in form.tvals : setTouched(p, v)
  \/ \E p \in form.paths, v \in form.evals : setError(p, v)
  \/ \E p \in form.paths, v0 \in form.vals, t0 \in form.tvals, e0 \in form.evals :
       \E nl \in {form.notify[p]} \cup form.alt[p] :
         register(p, v0, t0, e0, form.prop[p], nl)
  \/ \E p \in form.paths : deregister(p)
  \/ NotifyStep
  \/ NotifyReturn
  \/ reset
  \/ ResetStep
  \/ ResetReturn
  \/ submitForm
  \/ SubmitStep
  \/ SubmitReturn
  \/ \E p \in form.paths, v \in form.vals : formApiSet("setValue", p, v)
  \/ \E p \in form.paths, v \in form.tvals : formApiSet("setTouched", p, v)
  \/ \E p \in form.paths, v \in form.evals : formApiSet("setError", p, v)
  \/ formApiReturn
  \/ CallbackReturn
  \/ Turn

Spec == Init /\ [][Next]_vars

\* Execution is synchronous and on one thread: an operation that was called
\* goes on to its next step, and a fieldApi method that was called
\* returns.
FairSpec ==
  /\ Spec
  /\ WF_vars(NotifyStep) /\ WF_vars(NotifyReturn)
  /\ WF_vars(ResetStep) /\ WF_vars(ResetReturn)
  /\ WF_vars(SubmitStep) /\ WF_vars(SubmitReturn)
  /\ WF_vars(formApiReturn)
  /\ WF_vars(CallbackReturn)

(* ============================ the claims ============================== *)

\* The positions of the log.
Pos == 1..Len(log)

\* The invocation an entry belongs to: the last operation invoked at the
\* entry's call level before it.
OwnerOf(k) ==
  CHOOSE j \in 1..k : /\ log[j].t = "invoke"
                      /\ log[j].lvl = log[k].lvl
                      /\ \A i \in (j + 1)..k : ~(log[i].t = "invoke" /\ log[i].lvl = log[k].lvl)

\* The invocation that was made last, and whether anything was.
HasOp == \E j \in Pos : log[j].t = "invoke"
LastOp == CHOOSE j \in Pos : log[j].t = "invoke" /\ \A i \in (j + 1)..Len(log) : log[i].t # "invoke"

\* C1: right after register(p, {v0, t0, e0}, binding), getValue(p) = v0,
\* getTouched(p) = t0 and getError(p) = e0, and no fieldApi.validate call
\* belongs to a register invocation, whatever notify lists the bindings
\* carry.
C1_RegisterSeeds ==
  /\ (HasOp /\ log[LastOp].name = "register") =>
       /\ getValue(log[LastOp].key) = log[LastOp].arg
       /\ getTouched(log[LastOp].key) = log[LastOp].arg2
       /\ getError(log[LastOp].key) = log[LastOp].arg3
  /\ \A k \in Pos : log[k].t = "call" => log[OwnerOf(k)].name # "register"

\* A field with a notify list whose target is registered has just been
\* registered.
C1_Witness ==
  /\ stack = <<>>
  /\ HasOp
  /\ log[LastOp].name = "register"
  /\ log[LastOp].arg = Prim("v")
  /\ \E i \in 1..Len(fields) :
       /\ fields[i].key = log[LastOp].key
       /\ fields[i].notify # <<>>
       /\ Has(fields[i].notify[1])

\* Where the operation running at call level i was invoked.
FrameStart(i) ==
  CHOOSE j \in Pos : /\ log[j].t = "invoke"
                     /\ log[j].lvl = i
                     /\ \A k \in (j + 1)..Len(log) : ~(log[k].t = "invoke" /\ log[k].lvl = i)

\* What the operation running at call level i has done itself since.
OwnEntries(i) == {k \in Pos : k > FrameStart(i) /\ log[k].lvl = i}

\* C2: setValue(p, v, true) on a registered p whose notify list is [q]: when
\* its forEach is over and it is about to return, it has itself called
\* validate of q's binding exactly once if q was registered at the lookup,
\* and has made no call (and raised nothing) if q was not.
C2_NotifyOnce ==
  /\ (stack # <<>> /\ Top.kind = "notify" /\ Len(Top.list) = 1 /\ Top.idx > 1) =>
       LET own == {k \in OwnEntries(Len(stack)) : log[k].t \in {"call", "miss", "throw"}}
       IN /\ Cardinality(own) = 1
          /\ \A k \in own : /\ log[k].key = Top.list[1]
                            /\ log[k].t \in {"call", "miss"}
                            /\ log[k].t = "call" => log[k].name = "validate"
  /\ (log # <<>> /\ log[Len(log)].t = "miss") => ~Has(log[Len(log)].key)
  /\ (log # <<>> /\ log[Len(log)].t = "call" /\ log[OwnerOf(Len(log))].name = "setValue") =>
       /\ Has(log[Len(log)].key)
       /\ FieldsGet(log[Len(log)].key).id = log[Len(log)].id

\* setValue("a.b", v, true) is about to return after it called validate of
\* the registered "a.c".
C2_Witness ==
  /\ stack # <<>>
  /\ Top.kind = "notify"
  /\ Top.list = <<"a.c">>
  /\ Top.idx = 2
  /\ \E k \in OwnEntries(Len(stack)) : log[k].t = "call" /\ log[k].name = "validate" /\ log[k].key = "a.c"

\* The same setValue is about to return after it found "a.c" unregistered.
C2_WitnessMiss ==
  /\ stack # <<>>
  /\ Top.kind = "notify"
  /\ Top.list = <<"a.c">>
  /\ Top.idx = 2
  /\ \E k \in OwnEntries(Len(stack)) : log[k].t = "miss"

\* The top-level operation `name` has returned without a throw.
Returned(name) ==
  /\ stack = <<>>
  /\ log # <<>>
  /\ log[1].name = name
  /\ \A k \in Pos : log[k].t # "throw"

\* The events `name` the top-level operation has emitted itself.
OwnEmits(name) == {k \in Pos : log[k].t = "emit" /\ log[k].name = name /\ log[k].lvl = 1}

\* C3: a submitForm call that found the errors tree non-empty after its
\* validation pass has emitted no submit event; one that found it empty
\* leaves invalid() false and has emitted exactly one; and no other
\* operation ever emits submit.
C3_SubmitGated ==
  /\ Returned("submitForm") =>
       IF ObjectMapEmpty(errors)
       THEN ~invalid /\ Cardinality(OwnEmits("submit")) = 1
       ELSE invalid /\ OwnEmits("submit") = {}
  /\ \A k \in Pos : (log[k].t = "emit" /\ log[k].name = "submit") =>
                      log[OwnerOf(k)].name = "submitForm"

\* submitForm has returned over two registered fields, the validate of one
\* having set an error: no submit.
C3_Witness ==
  /\ Returned("submitForm")
  /\ Len(fields) = 2
  /\ \E k \in Pos : log[k].t = "invoke" /\ log[k].name = "setError" /\ log[k].arg = Prim("e")
  /\ invalid
  /\ OwnEmits("submit") = {}

\* submitForm has returned over two registered fields that validated clean.
C3_WitnessClean ==
  /\ Returned("submitForm")
  /\ Len(fields) = 2
  /\ Cardinality({k \in Pos : log[k].t = "call" /\ log[k].name = "validate"}) = 2
  /\ Cardinality(OwnEmits("submit")) = 1

\* C4: right after deregister(p), p is not in the registry, getValue(p),
\* getTouched(p) and getError(p) return the absent-value marker, and none
\* of values, touched, errors lists p.
C4_DeregisterPurges ==
  (HasOp /\ log[LastOp].name = "deregister") =>
    LET p == log[LastOp].key
    IN /\ ~Has(p)
       /\ getValue(p) = Absent
       /\ getTouched(p) = Absent
       /\ getError(p) = Absent
       /\ ~Lists(getFormState.values, p)
       /\ ~Lists(getFormState.touched, p)
       /\ ~Lists(getFormState.errors, p)

\* "a.b" has just been deregistered; its emptied parent containers remain
\* in all three trees.
C4_Witness ==
  /\ HasOp
  /\ log[LastOp].name = "deregister"
  /\ log[LastOp].key = "a.b"
  /\ getValue("a") = Obj(NoKids)
  /\ getTouched("a") = Obj(NoKids)
  /\ getError("a") = Obj(NoKids)

\* reset's forEach is over: it is about to emit change and return.
ResetOver == IF stack = <<>> THEN FALSE ELSE Top.kind = "reset" /\ Top.idx > Len(fields)

\* The fieldApi.reset calls reset has made itself to the field at key p.
OwnResets(p) ==
  {k \in OwnEntries(Len(stack)) : log[k].t = "call" /\ log[k].name = "reset" /\ log[k].key = p}

\* The registry was changed since the running top-level operation began.
RegistryTouched ==
  \E k \in Pos : log[k].t = "invoke" /\ log[k].name \in {"register", "deregister"}

\* A step of reset itself: its invocation, a turn of its forEach, its end.
ResetOwnStep ==
  IF stack = <<>> THEN IF stack' = <<>> THEN FALSE ELSE stack'[1].kind = "reset"
  ELSE Top.kind = "reset"

\* C5 as stated: reset() calls fieldApi.reset() exactly once on every field
\* that was registered when reset() was called, and emits its own change
\* last.
C5_Original ==
  /\ ResetOver => \A i \in 1..Len(Top.list) : Cardinality(OwnResets(Top.list[i])) = 1
  /\ Returned("reset") => OwnEmits("change") = {Len(log)}

\* C5, amended: when no callback of the pass registers or deregisters a
\* field, reset() has called fieldApi.reset() exactly once on every field
\* registered when it was called, in whatever order they were registered;
\* the returned reset has emitted its one change after its last
\* fieldApi.reset call.
C5_ResetCalls ==
  /\ (ResetOver /\ ~RegistryTouched) =>
       /\ Top.list = Keys
       /\ \A i \in 1..Len(fields) :
            /\ Cardinality(OwnResets(fields[i].key)) = 1
            /\ \A k \in OwnResets(fields[i].key) : log[k].id = fields[i].id
       /\ \A k \in OwnEntries(Len(stack)) : log[k].t = "call" /\ log[k].name = "reset"
  /\ Returned("reset") =>
       /\ OwnEmits("change") = {Len(log)}
       /\ \A k \in Pos : log[k].t = "emit" /\ log[k].lvl = 1 => k = Len(log)

\* ... and no step of reset itself writes the values, touched or errors
\* tree.
C5_Reset == [](C5_ResetCalls) /\ [][ResetOwnStep => UNCHANGED <<values, touched, errors>>]_vars

\* reset has returned over two registered fields, both reset, one of them
\* having written its value back through the updater.
C5_Witness ==
  /\ Returned("reset")
  /\ Len(fields) = 2
  /\ \A i \in 1..2 : \E k \in Pos : log[k].t = "call" /\ log[k].name = "reset"
                                     /\ log[k].lvl = 1 /\ log[k].id = fields[i].id
  /\ \E k \in Pos : log[k].t = "invoke" /\ log[k].name = "setValue"

\* C6: in every state the pristine, dirty and invalid of getState() and of
\* pristine(), dirty(), invalid() are computed from the trees: pristine iff
\* touched and values are both empty, dirty iff not pristine, invalid iff
\* errors is non-empty (and iff not valid); the booleans stored at
\* construction stay as they were and are not what is returned.
C6_Derived ==
  /\ getFormState.pristine = (ObjectMapEmpty(touched) /\ ObjectMapEmpty(values))
  /\ getFormState.dirty = ~getFormState.pristine
  /\ getFormState.invalid = ~ObjectMapEmpty(errors)
  /\ pristine = getFormState.pristine
  /\ dirty = getFormState.dirty
  /\ invalid = getFormState.invalid
  /\ invalid = ~valid
  /\ getFormState.values = values /\ getFormState.touched = touched
  /\ getFormState.errors = errors
  /\ stored = [pristine |-> TRUE, dirty |-> FALSE, invalid |-> FALSE]

\* A dirty, invalid form: every returned boolean differs from the stored
\* one.
C6_Witness ==
  /\ getFormState.pristine # stored.pristine
  /\ getFormState.dirty # stored.dirty
  /\ getFormState.invalid # stored.invalid
  /\ ~ObjectMapEmpty(touched)

\* C7 as stated: pristine() is true in every state with zero registered
\* fields, and false right after a setValue or setTouched that wrote a
\* defined leaf.
C7_Pristine ==
  /\ fields = <<>> => pristine
  /\ (HasOp /\ log[LastOp].name \in {"setValue", "setTouched"}
            /\ log[LastOp].arg # Absent) => ~pristine

\* C8 as stated: invalid() is true iff getError(p) is defined (holds a
\* defined leaf) for at least one registered path p; and it is false once
\* a setError has left the errors tree empty.
C8_Invalid ==
  /\ invalid <=> \E i \in 1..Len(fields) : ~ObjectMapEmpty(getError(fields[i].key))
  /\ (HasOp /\ log[LastOp].name = "setError" /\ ObjectMapEmpty(errors)) => ~invalid

\* C9 as stated: no operation raises because its path has no registry
\* entry.
C9_NoRaise == \A k \in Pos : log[k].t # "throw"

\* A step of a Form-API setter itself: its invocation, its return.
ApiOwnStep ==
  IF stack = <<>> THEN IF stack' = <<>> THEN FALSE ELSE stack'[1].kind = "api"
  ELSE Top.kind = "api"

\* The Form-API setter called last, while it runs or after it returned
\* without a throw.
ApiCalled ==
  /\ log # <<>>
  /\ log[1].name \in {"formApi.setValue", "formApi.setTouched", "formApi.setError"}
  /\ \A k \in Pos : log[k].t # "throw"

\* C10: a Form-API setter on a registered path has itself made exactly one
\* call, of the same-named method of that field's fieldApi, with the given
\* value, and emitted no event ...
C10_ApiCalls ==
  ApiCalled =>
    /\ {k \in Pos : k > 1 /\ log[k].lvl = 1} = {2}
    /\ log[2].t = "call"
    /\ "formApi." \o log[2].name = log[1].name
    /\ log[2].key = log[1].key
    /\ log[2].arg = log[1].arg
    /\ stack # <<>> => stack[1].id = log[2].id
    /\ (Len(stack) = 2 /\ Top.calls = 0) =>
          Has(log[1].key) /\ FieldsGet(log[1].key).id = log[2].id

\* ... and no step of the setter itself writes a tree: while it runs, a
\* tree changes only in a step that invokes an updater operation.
C10_FormApi ==
  /\ [](C10_ApiCalls)
  /\ [][ApiOwnStep => UNCHANGED <<values, touched, errors>>]_vars
  /\ [][(ApiCalled /\ <<values, touched, errors>>' # <<values, touched, errors>>) =>
         /\ Len(log') > Len(log)
         /\ log'[Len(log) + 1].t = "invoke"
         /\ log'[Len(log) + 1].lvl >= 3
         /\ log'[Len(log) + 1].name \in
              {"setValue", "setTouched", "setError", "register", "deregister"}]_vars

\* formApi.setValue("a.b", "v") has returned; the field's setValue wrote
\* the value back through the updater.
C10_Witness ==
  /\ Returned("formApi.setValue")
  /\ \E k \in Pos : log[k].t = "invoke" /\ log[k].name = "setValue" /\ log[k].lvl = 3
  /\ getValue(log[1].key) = log[1].arg

\* The binding stored under key p by the register step that is taken.
Stored(p) == \E i \in 1..Len(fields') : fields'[i].key = p /\ fields'[i].id = nextId

\* C11: the registry never holds two entries for one path; right after
\* register(p, ...), re-registration included, the entry of p is the
\* binding just passed and p's value, touched and error are the initial
\* state just passed; every fieldApi call of a notify, reset or submitForm
\* fan-out goes to the binding the registry holds for the key at that
\* moment, and a notify fan-out walks the notify list of the binding the
\* registry holds when setValue is called ...
C11_Current ==
  /\ \A i, j \in 1..Len(fields) : fields[i].key = fields[j].key => i = j
  /\ (HasOp /\ log[LastOp].name = "register") =>
       /\ Has(log[LastOp].key)
       /\ FieldsGet(log[LastOp].key).id = log[LastOp].id
       /\ getValue(log[LastOp].key) = log[LastOp].arg
       /\ getTouched(log[LastOp].key) = log[LastOp].arg2
       /\ getError(log[LastOp].key) = log[LastOp].arg3
       /\ log[Len(log)].t # "throw"
  /\ (log # <<>> /\ log[Len(log)].t = "call" /\ log[Len(log)].name \in {"validate", "reset"}) =>
       /\ Has(log[Len(log)].key)
       /\ FieldsGet(log[Len(log)].key).id = log[Len(log)].id
  /\ (stack # <<>> /\ Top.kind = "notify" /\ log[Len(log)].t = "emit"
        /\ log[Len(log)].name = "value" /\ log[Len(log)].lvl = Len(stack)) =>
       /\ Has(Top.key)
       /\ Top.id = FieldsGet(Top.key).id
       /\ Top.list = FieldsGet(Top.key).notify

\* ... and a register step on a registered path p raises nothing and puts
\* the new binding in the place of the old one: the registry keeps its
\* length and its order, and every other entry stays as it was.
C11_Rebind ==
  /\ [](C11_Current)
  /\ [][\A p \in Paths : (Has(p) /\ nextId' # nextId /\ Stored(p)) =>
          /\ Len(fields') = Len(fields)
          /\ \A i \in 1..Len(fields) :
               IF fields[i].key = p
               THEN fields'[i].key = p /\ fields'[i].id = nextId /\ fields'[i].id # fields[i].id
               ELSE fields'[i] = fields[i]
          /\ log'[Len(log')].t # "throw"]_vars

\* "a.b" was registered without a notify list and registered again with
\* the list ["a.c"]; a later setValue("a.b", v) has called validate of
\* "a.c" for the new binding.
C11_Witness ==
  /\ form.name = "rebind"
  /\ nextId = 4
  /\ Len(fields) = 2
  /\ FieldsGet("a.c").id = 1
  /\ FieldsGet("a.b").id = 3
  /\ stack # <<>>
  /\ Top.kind = "cb"
  /\ stack[1].kind = "notify" /\ stack[1].id = 3 /\ stack[1].list = <<"a.c">>
  /\ log[Len(log)].t = "call"
  /\ log[Len(log)].key = "a.c"

\* C12: right after setValue(p, v, notify) the read getValue(p) returns v,
\* after setTouched(p, v) getTouched(p) returns v and after setError(p, v)
\* getError(p) returns v, whatever the tree held before: nothing, a value
\* at a prefix of p, or values below p.
C12_RoundTrip ==
  HasOp =>
    LET op == log[LastOp]
    IN /\ op.name = "setValue" => getValue(op.key) = op.arg
       /\ op.name = "setTouched" => getTouched(op.key) = op.arg
       /\ op.name = "setError" => getError(op.key) = op.arg

\* validate of "a" was called with the primitive stored at "a", and its
\* setValue("a.b", "w", false) wrote below it: "a.b" reads "w".
C12_Witness ==
  /\ HasOp
  /\ LastOp > 1
  /\ log[LastOp].name = "setValue"
  /\ log[LastOp].key = "a.b"
  /\ log[LastOp].arg = Prim("w")
  /\ log[LastOp].arg2 = Prim("false")
  /\ log[LastOp - 1].t = "call"
  /\ log[LastOp - 1].key = "a"
  /\ log[LastOp - 1].arg \in {Prim("v"), Prim("w")}
  /\ getValue("a.b") = Prim("w")

\* validate of "a.b" was called with the value stored at "a.b", and its
\* setValue("a", "w", false) wrote over the object that held it.
C12_WitnessOver ==
  /\ HasOp
  /\ LastOp > 1
  /\ log[LastOp].name = "setValue"
  /\ log[LastOp].key = "a"
  /\ log[LastOp].arg = Prim("w")
  /\ log[LastOp - 1].t = "call"
  /\ log[LastOp - 1].key = "a.b"
  /\ log[LastOp - 1].arg = Prim("v")
  /\ getValue("a") = Prim("w")
  /\ getValue("a.b") = Absent

\* C13 as stated: each validate call of a notification step passes the
\* value stored in the values tree at the target's path q (its registry
\* key) at the moment of the call, whatever q's binding object holds.
C13_NotifyValue ==
  (Len(stack) >= 2 /\ Top.kind = "cb" /\ Top.calls = 0
     /\ stack[Len(stack) - 1].kind = "notify" /\ log[Len(log)].t = "call") =>
    /\ log[Len(log)].name = "validate"
    /\ log[Len(log)].key = stack[Len(stack) - 1].list[stack[Len(stack) - 1].idx]
    /\ log[Len(log)].arg = getValue(log[Len(log)].key)

\* The same, for the bindings whose `field` property is their registry
\* key.
C13_NotifyValueOwn ==
  (\A i \in 1..Len(fields) : fields[i].field = fields[i].key) => C13_NotifyValue

\* What the invocation at position j of the log has done itself.
Own(j) ==
  {k \in (j + 1)..Len(log) :
     /\ log[k].lvl = log[j].lvl
     /\ \A i \in (j + 1)..k : ~(log[i].t = "invoke" /\ log[i].lvl = log[j].lvl)}

\* The events among them.
OwnEvents(j) == {k \in Own(j) : log[k].t = "emit"}

\* C14: every setValue call has emitted change and then value, once each,
\* as its first two effects and before any validate call of its
\* notification step; every setTouched, setError and deregister call has
\* emitted exactly one change and nothing else; submitForm emits its own
\* change once, when its forEach is over: after all of its validate calls
\* and everything they caused, and before its submit.
C14_Events ==
  /\ \A j \in Pos : log[j].t = "invoke" =>
       /\ log[j].name = "setValue" =>
            /\ Len(log) >= j + 2
            /\ log[j + 1] = Emit("change", log[j].lvl)
            /\ log[j + 2] = Emit("value", log[j].lvl)
            /\ OwnEvents(j) = {j + 1, j + 2}
            /\ \A k \in Own(j) : log[k].t \in {"call", "miss", "throw"} => k > j + 2
       /\ log[j].name \in {"setTouched", "setError", "deregister"} =>
            /\ Len(log) >= j + 1
            /\ log[j + 1] = Emit("change", log[j].lvl)
            /\ Own(j) = {j + 1}
       /\ log[j].name = "submitForm" =>
            /\ j = 1
            /\ \A k \in OwnEvents(j) : log[k].name \in {"change", "submit"}
            /\ Cardinality(OwnEmits("change")) = (IF stack = <<>> THEN 1 ELSE 0)
            /\ \A c \in OwnEmits("change") :
                 /\ \A k \in Pos : (log[k].t = "call" \/ log[k].lvl > 1) => k < c
                 /\ \A k \in OwnEmits("submit") : k = c + 1
            /\ Cardinality(OwnEmits("submit")) <= 1

\* submitForm has returned: a validate callback wrote a value (change and
\* value of its own), then submitForm's change, then submit.
C14_Witness ==
  /\ Returned("submitForm")
  /\ Len(log) >= 8
  /\ \E k \in Pos : /\ log[k].t = "invoke" /\ log[k].name = "setValue" /\ log[k].lvl = 3
                    /\ log[k + 1] = Emit("change", 3)
  /\ log[Len(log) - 1] = Emit("change", 1)
  /\ log[Len(log)] = Emit("submit", 1)

\* A notifying setValue has emitted change and value and then called
\* validate of its target.
C14_WitnessNotify ==
  /\ Len(log) = 4
  /\ log[1].name = "setValue"
  /\ log[2] = Emit("change", 1)
  /\ log[3] = Emit("value", 1)
  /\ log[4].t = "call"

\* submitForm's forEach is over: it is about to emit change and return.
SubmitOver == IF stack = <<>> THEN FALSE ELSE Top.kind = "submit" /\ Top.idx > Len(fields)

\* The fieldApi.validate calls submitForm has made itself, and those to the
\* field at key p.
OwnValidates == {k \in OwnEntries(1) : log[k].t = "call" /\ log[k].name = "validate"}
OwnValidatesOf(p) == {k \in OwnValidates : log[k].key = p}

\* C15 as stated: submitForm first suppresses the event's default action,
\* then calls validate exactly once for every field that was registered
\* when it was called, in registry order, before its change event and the
\* validity check.
C15_Original ==
  /\ (log # <<>> /\ log[1].name = "submitForm") => (Len(log) >= 2 /\ log[2] = Prevent(1))
  /\ SubmitOver =>
       /\ \A i \in 1..Len(Top.list) : Cardinality(OwnValidatesOf(Top.list[i])) = 1
       /\ \A i, j \in 1..Len(Top.list) : i < j =>
            \A k \in OwnValidatesOf(Top.list[i]), m \in OwnValidatesOf(Top.list[j]) : k < m
       /\ \A k \in Pos : log[k].t = "emit" => log[k].lvl > 1

\* C15, amended: submitForm suppresses the default action first; when no
\* validate callback of the pass registers or deregisters a field, it has
\* then called validate exactly once on every field registered when it was
\* called, in registry order and on no other, each with that field's
\* binding, before it emits anything itself; whatever the callbacks do, it
\* calls validate on no key twice while that key stays registered, never
\* on a binding that is not in the registry at that moment, and emits
\* nothing itself before its forEach is over.
C15_Submit ==
  /\ (log # <<>> /\ log[1].name = "submitForm") =>
       /\ Len(log) >= 2 /\ log[2] = Prevent(1)
       /\ \A k \in Pos : log[k].t = "prevent" => k = 2
       /\ stack # <<>> => \A k \in Pos : log[k].t = "emit" => log[k].lvl > 1
  /\ (SubmitOver /\ ~RegistryTouched) =>
       /\ Top.list = Keys
       /\ Cardinality(OwnValidates) = Len(fields)
       /\ \A i \in 1..Len(fields) :
            /\ Cardinality(OwnValidatesOf(fields[i].key)) = 1
            /\ \A k \in OwnValidatesOf(fields[i].key) : log[k].id = fields[i].id
       /\ \A i, j \in 1..Len(fields) : i < j =>
            \A k \in OwnValidatesOf(fields[i].key), m \in OwnValidatesOf(fields[j].key) : k < m
  /\ SubmitOver =>
       \A i \in 1..Len(fields) :
         /\ Cardinality({k \in OwnValidatesOf(fields[i].key) : log[k].id = fields[i].id}) <= 1
         /\ fields[i].key \in {Top.list[n] : n \in 1..Len(Top.list)} =>
              Cardinality(OwnValidatesOf(fields[i].key)) = 1

\* submitForm's forEach is over two registered fields: validate was called
\* on the first, whose callback wrote an error, and then on the second.
C15_Witness ==
  /\ SubmitOver
  /\ ~RegistryTouched
  /\ Len(fields) = 2
  /\ log[2] = Prevent(1)
  /\ log[3].t = "call" /\ log[3].id = fields[1].id
  /\ log[4].t = "invoke" /\ log[4].name = "setError"
  /\ log[Len(log)].t = "call" /\ log[Len(log)].id = fields[2].id

\* One path addresses the node of the other, or a node above or below it.
RECURSIVE IsPrefix(_, _)
IsPrefix(s, t) ==
  IF s = <<>> THEN TRUE
  ELSE t # <<>> /\ Head(s) = Head(t) /\ IsPrefix(Tail(s), Tail(t))

Overlap(p, q) == IsPrefix(Segments(p), Segments(q)) \/ IsPrefix(Segments(q), Segments(p))

\* A validate call was just made: it is the last entry of the log and its
\* callback has done nothing yet.
JustValidated ==
  /\ Len(stack) >= 2
  /\ Top.kind = "cb"
  /\ Top.calls = 0
  /\ stack[Len(stack) - 1].kind \in {"submit", "notify"}
  /\ log[Len(log)].t = "call"

\* The path whose value the call just made was given: the field's registry
\* key in a submitForm pass, the path its binding names as its field in a
\* notify fan-out.
ReadPath ==
  IF stack[Len(stack) - 1].kind = "submit" THEN log[Len(log)].key
  ELSE FieldsGet(log[Len(log)].key).field

\* The writes to the values tree at or around path p made since the running
\* top-level operation began.
WritesAt(p) ==
  {j \in Pos : /\ log[j].t = "invoke"
               /\ log[j].name \in {"setValue", "register", "deregister"}
               /\ Overlap(log[j].key, p)}

\* C16: the value passed to a field's validate, in a submitForm pass and in
\* a notify fan-out, is read from the values tree at the moment of that
\* call: it is what the tree holds at the field's path right then, so when
\* the last write at or around that path was a setValue(path, w) made
\* earlier in the same pass, by a validate callback or by the notifying
\* setValue itself, validate is passed w; and the check that gates submit
\* reads the errors tree as the callbacks of the pass left it: submit is
\* emitted iff no error is stored when the forEach is over.
C16_Fresh ==
  /\ JustValidated =>
       /\ log[Len(log)].arg = ObjectMapGet(values, ReadPath)
       /\ \A w \in WritesAt(ReadPath) :
            (/\ \A j \in WritesAt(ReadPath) : j <= w
             /\ log[w].name = "setValue"
             /\ log[w].key = ReadPath) => log[Len(log)].arg = log[w].arg
  /\ Returned("submitForm") =>
       /\ (OwnEmits("submit") # {}) <=> ObjectMapEmpty(errors)
       /\ \A j \in Pos :
            (/\ log[j].t = "invoke" /\ log[j].name = "setError"
             /\ ~ObjectMapEmpty(log[j].arg)
             /\ \A k \in Pos : (k > j /\ log[k].t = "invoke") =>
                  ~(log[k].name \in {"setError", "register", "deregister"}
                      /\ Overlap(log[k].key, log[j].key)))
            => OwnEmits("submit") = {}

\* submitForm over "a.b" and "a.c", both registered with "v": validate of
\* "a.b" wrote "w" at "a.c", and validate of "a.c" was passed "w".
C16_Witness ==
  /\ form.name = "relay"
  /\ JustValidated
  /\ log[1].name = "submitForm"
  /\ Len(log) = 7
  /\ log[3].t = "call" /\ log[3].key = "a.b" /\ log[3].arg = Prim("v")
  /\ log[4].t = "invoke" /\ log[4].name = "setValue" /\ log[4].key = "a.c"
  /\ log[4].arg = Prim("w")
  /\ log[7].t = "call" /\ log[7].key = "a.c" /\ log[7].arg = Prim("w")

\* setValue("a.b", v) notifies "a.b" and "a.c": validate of "a.b" wrote "w"
\* at "a.c", and validate of "a.c" was passed "w".
C16_WitnessNotify ==
  /\ form.name = "relay"
  /\ JustValidated
  /\ log[1].name = "setValue" /\ log[1].key = "a.b" /\ log[1].arg = Prim("v")
  /\ Len(log) = 8
  /\ log[4].t = "call" /\ log[4].key = "a.b" /\ log[4].arg = Prim("v")
  /\ log[5].t = "invoke" /\ log[5].name = "setValue" /\ log[5].key = "a.c"
  /\ log[5].arg = Prim("w")
  /\ log[8].t = "call" /\ log[8].key = "a.c" /\ log[8].arg = Prim("w")

\* submitForm has returned without submit: the validate callback of the
\* last field stored an error.
C16_WitnessGate ==
  /\ form.name = "relay"
  /\ Returned("submitForm")
  /\ log[Len(log)] = Emit("change", 1)
  /\ log[Len(log) - 1] = Emit("change", 3)
  /\ log[Len(log) - 2].name = "setError"
  /\ log[Len(log) - 2].arg = Prim("e")

\* A notifying setValue's forEach is over: it is about to return.
NotifyOver == IF stack = <<>> THEN FALSE ELSE Top.kind = "notify" /\ Top.idx > Len(Top.list)

\* The lookups it has made itself: validate calls and missing targets.
OwnLookups == {k \in OwnEntries(Len(stack)) : log[k].t \in {"call", "miss"}}

\* C17: a notifying setValue(p, v) makes one lookup per entry of p's notify
\* list, in list order and with no deduplication: the n-th is for the n-th
\* listed path, a validate call when that path is registered (a target
\* listed twice is validated twice) and nothing when it is not; it makes
\* no other call.  So when no callback calls setValue, every validate call
\* of the operation is one the top-level setValue made for its own list,
\* and the targets' own notify lists are not followed.
C17_OneLevel ==
  /\ NotifyOver =>
       /\ Cardinality(OwnLookups) = Len(Top.list)
       /\ \A k \in OwnLookups : log[k].key = Top.list[Cardinality({m \in OwnLookups : m <= k})]
       /\ \A k \in OwnEntries(Len(stack)) : log[k].t \in {"emit", "call", "miss"}
       /\ \A k \in OwnLookups : log[k].t = "call" => log[k].name = "validate"
  /\ (log # <<>> /\ log[Len(log)].t = "miss") => ~Has(log[Len(log)].key)
  /\ (log # <<>> /\ log[1].name = "setValue"
        /\ \A j \in Pos : (j > 1 /\ log[j].t = "invoke") => log[j].name # "setValue") =>
       /\ \A k \in Pos : log[k].t = "call" => (log[k].lvl = 1 /\ log[k].name = "validate")
       /\ Len(stack) <= 2
       /\ stack # <<>> =>
            /\ stack[1].kind = "notify"
            /\ stack[1].key = log[1].key
            /\ \A k \in Pos : log[k].t \in {"call", "miss"} =>
                 \E n \in 1..Len(stack[1].list) : stack[1].list[n] = log[k].key

\* "a.b" and "a.c" are registered; setValue("a.b", v) has validated "a.c"
\* twice, once per listing, and not "a.b", which "a.c" notifies.
C17_Witness ==
  /\ form.name = "chain"
  /\ Len(fields) = 2
  /\ NotifyOver
  /\ Top.key = "a.b"
  /\ Top.list = <<"a.c", "a.c">>
  /\ FieldsGet("a.c").notify = <<"a.b">>
  /\ Cardinality({k \in Pos : log[k].t = "call" /\ log[k].key = "a.c"}) = 2
  /\ \A k \in Pos : log[k].t = "call" => log[k].key = "a.c"

\* The identities of the bindings in the registry.
Ids(reg) == {reg[i].id : i \in 1..Len(reg)}

\* C18: every fieldApi call (validate, reset, a Form-API setter's target)
\* goes to the binding that is in the registry under that key at that
\* moment; once deregister has removed a binding, no later entry of the
\* running operation is a call to it, although the fan-out that was in
\* progress goes on to the fields that remain ...
C18_Calls ==
  /\ (log # <<>> /\ log[Len(log)].t = "call") =>
       /\ Has(log[Len(log)].key)
       /\ FieldsGet(log[Len(log)].key).id = log[Len(log)].id
  /\ \A j, k \in Pos :
       (j < k /\ log[j].t = "invoke" /\ log[j].name = "deregister" /\ log[j].id # 0)
         => ~(log[k].t = "call" /\ log[k].id = log[j].id)
  /\ \A j \in Pos : (log[j].t = "invoke" /\ log[j].name = "deregister") => log[j].id \notin Ids(fields)
  /\ \A i \in 1..Len(fields) : fields[i].id < nextId

\* ... and a binding that has left the registry never comes back: a
\* binding that enters the registry is the fresh one a register step
\* creates, so a later register of the same path is served by that one.
C18_Irreversible ==
  /\ [](C18_Calls)
  /\ [][/\ nextId' >= nextId
        /\ \A b \in Ids(fields') \ Ids(fields) : b = nextId /\ nextId' = nextId + 1]_vars

\* submitForm over "a.b" and "a.c": validate of the first deregistered the
\* second, and the forEach is over without a call to the removed binding.
C18_Witness ==
  /\ SubmitOver
  /\ Len(Top.list) = 2
  /\ Len(fields) = 1
  /\ \E j \in Pos : /\ log[j].t = "invoke" /\ log[j].name = "deregister"
                    /\ log[j].id # 0 /\ log[j].key = Top.list[2]
                    /\ \A k \in Pos : log[k].t = "call" => log[k].id # log[j].id
  /\ Cardinality({k \in Pos : log[k].t = "call"}) = 1

\* setValue("a.b", v) notifies "a.b" and "a.c": validate of the first
\* deregistered the second, whose turn in the list then found no entry.
C18_WitnessNotify ==
  /\ NotifyOver
  /\ Top.list = <<"a.b", "a.c">>
  /\ \E j \in Pos : /\ log[j].t = "invoke" /\ log[j].name = "deregister"
                    /\ log[j].id # 0 /\ log[j].key = "a.c"
  /\ log[Len(log)] = Miss(1, "a.c")

\* reset over a registry whose field at "a.c" was registered, removed and
\* registered again: the fresh binding is the one that is reset.
C18_WitnessFresh ==
  /\ form.name = "pair"
  /\ nextId = 4
  /\ Keys = <<"a.c">>
  /\ fields[1].id = 3
  /\ log # <<>> /\ log[Len(log)].t = "call" /\ log[Len(log)].name = "reset"
  /\ log[Len(log)].id = 3

\* The step taken is a call of deregister(p).
DeregisterStep(p) ==
  /\ Len(log') = Len(log) + 2
  /\ log'[Len(log) + 1].t = "invoke"
  /\ log'[Len(log) + 1].name = "deregister"
  /\ log'[Len(log) + 1].key = p

\* The registry entry of q, if any.
EntryOf(reg, q) == {reg[i] : i \in {n \in 1..Len(reg) : reg[n].key = q}}

\* Every register so far stored a path that is still registered: a path
\* that is not in the registry was never registered.
NoneRemoved == Len(fields) = nextId - 1

C19_WitnessNever ==
  /\ HasOp
  /\ log[LastOp].name = "deregister"
  /\ log[LastOp].key = "a.b"
  /\ log[LastOp].id = 0
  /\ NoneRemoved
  /\ Keys = <<"a">>
  /\ getValue("a") = Prim("v")
  /\ getTouched("a") = Prim("t")
  /\ getError("a") = Prim("e")

\* The fieldApi methods of the form re-enter the controller only through
\* setError, setTouched and setValue with notify = false.
QuietForm == form.cb \cup form.cbOther \subseteq {"setError", "setTouched", "setValueQuiet"}

\* So far the callbacks of the running operation have re-entered only that
\* way.
QuietSoFar ==
  \A j \in Pos : (j > 1 /\ log[j].t = "invoke") =>
    \/ log[j].name \in {"setError", "setTouched"}
    \/ log[j].name = "setValue" /\ log[j].arg2 = Prim("false")

\* The fieldApi calls and passed-over targets of the top-level operation.
TopLookups == {k \in Pos : log[k].lvl = 1 /\ log[k].t \in {"call", "miss"}}

\* C20: while the callbacks re-enter only through setError, setTouched and
\* setValue with notify = false, the call stack is never deeper than the
\* operation and the one callback it is in, and the top-level operation
\* has made exactly one lookup for each element its forEach has passed: a
\* notifying setValue at most one validate call per entry of its notify
\* list, whatever the notify graph, and reset and submitForm at most one
\* call per registered field; a deeper stack is reached only after a
\* callback has called setValue with notify = true ...
C20_Bounded ==
  /\ (log # <<>> /\ QuietSoFar) =>
       /\ Len(stack) <= 2
       /\ \A k \in Pos : log[k].t \in {"call", "miss"} => log[k].lvl = 1
       /\ (stack # <<>> /\ stack[1].kind # "api") =>
            /\ Cardinality(TopLookups) = stack[1].idx - 1 + (Len(stack) - 1)
            /\ stack[1].kind = "notify" => Cardinality(TopLookups) <= Len(stack[1].list)
            /\ stack[1].kind \in {"reset", "submit"} => Cardinality(TopLookups) <= Len(fields)
       /\ (stack = <<>> /\ log[1].name = "setValue" /\ Has(log[1].key)) =>
            Cardinality(TopLookups) <= Len(FieldsGet(log[1].key).notify)
  /\ Len(stack) > 2 =>
       \E j \in Pos : /\ j > 1 /\ log[j].t = "invoke" /\ log[j].name = "setValue"
                      /\ log[j].arg2 = Prim("true")

\* ... and every operation of such a form returns.
C20_Terminates ==
  /\ [](C20_Bounded)
  /\ (QuietForm /\ stack # <<>>) ~> (stack = <<>>)

\* Two registered fields notify each other: setValue("a.b", v) has
\* returned after its two validate calls, one of whose callbacks set an
\* error.
C20_Witness ==
  /\ form.name = "chain"
  /\ Len(fields) = 2
  /\ FieldsGet("a.c").notify = <<"a.b">>
  /\ Returned("setValue")
  /\ log[1].key = "a.b"
  /\ Cardinality(TopLookups) = 2
  /\ \E j \in Pos : log[j].t = "invoke" /\ log[j].name = "setError" /\ log[j].lvl = 3

\* Two fields notify each other and validate answers with a notifying
\* setValue: the calls nest as deep as the stack is allowed to grow.
C20_WitnessDeep ==
  /\ form.name = "cycle"
  /\ Len(stack) >= MaxDepth - 1
  /\ Top.kind = "cb"
  /\ \A i \in 1..Len(stack) : stack[i].kind = (IF i % 2 = 1 THEN "notify" ELSE "cb")
  /\ stack[2].key # stack[Len(stack)].key

====
